---- MODULE Spec2Model ----
(***************************************************************************)
(* QOpenGLContext, QOpenGLContextGroup and QOpenGLSharedResource of        *)
(* src/gui/kernel/qopenglcontext.cpp as a state machine.                   *)
(*                                                                         *)
(* The objects are a fixed pool of contexts, threads, surfaces, share      *)
(* groups and shared resources.  Every public operation is one atomic      *)
(* action made of the calls the code makes, in the code's order.  The      *)
(* platform plugin is the environment: whether it produces a platform      *)
(* context, whether that context is valid or sharing, whether the native   *)
(* makeCurrent succeeds and whether a context is lost later are inputs.    *)
(***************************************************************************)
EXTENDS Integers, Sequences, FiniteSets, TLC

\* ------------------------------------------------------------- bounds
\* behaviours of at most MaxSteps operations are explored
MaxSteps == 5
MaxResources == 2

Contexts == {"c1", "c2"}
Threads == {"t1", "t2"}
\* a group holds at least one context, so there are never more groups than contexts
Groups == 1..Cardinality(Contexts)
Resources == 1..MaxResources

\* nullptr for contexts and surfaces, for groups and for resources
Null == "null"
NoGroup == 0
NoResource == 0
\* a thread whose QThreadStorage slot holds no QGuiGLThreadContext yet
NoData == "noData"

\* s1, s2: windows with a platform surface that support OpenGL;
\* sNoHandle: a surface whose surfaceHandle() is null;
\* sRaster: a surface with a handle for which supportsOpenGL() is false
Surfaces == {"s1", "s2", "sNoHandle", "sRaster"}
surfaceHandle(s) == s # "sNoHandle"
supportsOpenGL(s) == s \in {"s1", "s2", "sNoHandle"}

VARIABLES
    platformGLContext,  \* d->platformGLContext: "none", or the platform context's isValid()
    shareContext,       \* d->shareContext
    shareGroup,         \* d->shareGroup
    surface,            \* d->surface
    thread,             \* QObject::thread() of the context
    threadContext,      \* qwindow_context_storage(): per thread NoData, Null or a context
    alive,              \* which QOpenGLContextGroup objects exist
    m_shares,           \* QOpenGLContextGroupPrivate::m_shares
    m_refs,             \* QOpenGLContextGroupPrivate::m_refs
    m_sharedResources,  \* QOpenGLContextGroupPrivate::m_sharedResources
    m_pendingDeletion,  \* QOpenGLContextGroupPrivate::m_pendingDeletion
    m_resources,        \* QOpenGLContextGroupPrivate::m_resources, for one multi-group owner
    m_group,            \* QOpenGLSharedResource::m_group
    life,               \* a resource object: "unborn", "alive", "deleted", "deletedTwice"
    invalidated,        \* invalidateResource() was called on the resource
    freed,              \* the freeResource() calls made on the resource, in order
    dontCheckAffinity,  \* Qt::AA_DontCheckOpenGLContextThreadAffinity
    aborted,            \* qFatal() ended the process
    freeing,            \* per thread: the resource and the group read by a free() call that
                        \* has not locked the group's mutex yet
    freeCalled,         \* the resources on which such a free() call was made
    steps,              \* how many operations and platform events have happened
    last                \* the operation that made the last step, and what it returned or did

vars == <<platformGLContext, shareContext, shareGroup, surface, thread, threadContext,
          alive, m_shares, m_refs, m_sharedResources, m_pendingDeletion, m_resources,
          m_group, life, invalidated, freed, dontCheckAffinity, aborted, freeing,
          freeCalled, steps, last>>

\* The program state as one value, so that a handler is the composition of
\* the calls it makes.
State ==
    [platformGLContext |-> platformGLContext, shareContext |-> shareContext,
     shareGroup |-> shareGroup, surface |-> surface, threadContext |-> threadContext,
     alive |-> alive, m_shares |-> m_shares, m_refs |-> m_refs,
     m_sharedResources |-> m_sharedResources, m_pendingDeletion |-> m_pendingDeletion,
     m_resources |-> m_resources, m_group |-> m_group, life |-> life,
     invalidated |-> invalidated, freed |-> freed]

Range(q) == {q[i] : i \in 1..Len(q)}

\* QList::removeOne
RECURSIVE removeOne(_, _)
removeOne(q, x) ==
    IF q = <<>> THEN <<>>
    ELSE IF Head(q) = x THEN Tail(q)
    ELSE <<Head(q)>> \o removeOne(Tail(q), x)

\* ------------------------------------------------------ QOpenGLContext
isValid(S, c) == S.platformGLContext[c] = "valid"

currentContext(S, t) ==
    IF S.threadContext[t] = NoData THEN Null ELSE S.threadContext[t]

setCurrentContext(S, t, context) ==
    IF S.threadContext[t] = NoData /\ context = Null
    THEN S
    ELSE [S EXCEPT !.threadContext[t] = context]

\* ----------------------------------------------- QOpenGLSharedResource
\* delete on a resource object
deleteResource(S, r) ==
    [S EXCEPT !.life[r] = IF @ = "alive" THEN "deleted" ELSE "deletedTwice"]

\* the pure virtual freeResource(ctx), called in thread t for a resource of
\* group g: the call is recorded with what held of ctx when it was made
freeResource(S, r, g, ctx, t) ==
    [S EXCEPT !.freed[r] = Append(@, [context |-> ctx,
                                      valid |-> isValid(S, ctx),
                                      member |-> ctx \in Range(S.m_shares[g]),
                                      current |-> currentContext(S, t) = ctx])]

invalidateResource(S, r) == [S EXCEPT !.invalidated[r] = TRUE]

RECURSIVE freeAndDeleteAll(_, _, _, _, _)
freeAndDeleteAll(S, pending, g, ctx, t) ==
    IF pending = <<>> THEN S
    ELSE freeAndDeleteAll(deleteResource(freeResource(S, Head(pending), g, ctx, t),
                                         Head(pending)),
                          Tail(pending), g, ctx, t)

deletePendingResources(S, g, ctx, t) ==
    freeAndDeleteAll([S EXCEPT !.m_pendingDeletion[g] = <<>>],
                     S.m_pendingDeletion[g], g, ctx, t)

\* free() that flushes the queue whenever any context is current, without
\* comparing its share group with the resource's
free_anyCurrent(S, r, t) ==
    IF S.m_group[r] = NoGroup
    THEN deleteResource(S, r)
    ELSE LET g == S.m_group[r]
             S1 == [S EXCEPT !.m_sharedResources[g] = removeOne(@, r),
                             !.m_pendingDeletion[g] = Append(@, r)]
             current == currentContext(S1, t)
         IN  IF current # Null
             THEN deletePendingResources(S1, g, current, t)
             ELSE S1

\* free() from the point where it holds the mutex of the group g it has read
\* from m_group
freeLocked(S, r, g, t) ==
    LET S1 == [S EXCEPT !.m_sharedResources[g] = removeOne(@, r),
                        !.m_pendingDeletion[g] = Append(@, r)]
        current == currentContext(S1, t)
    IN  IF current # Null /\ S1.shareGroup[current] = g
        THEN deletePendingResources(S1, g, current, t)
        ELSE S1

free(S, r, t) ==
    IF S.m_group[r] = NoGroup
    THEN deleteResource(S, r)
    ELSE LET g == S.m_group[r]
             S1 == [S EXCEPT !.m_sharedResources[g] = removeOne(@, r),
                             !.m_pendingDeletion[g] = Append(@, r)]
             current == currentContext(S1, t)
         IN  IF current # Null /\ S1.shareGroup[current] = g
             THEN deletePendingResources(S1, g, current, t)
             ELSE S1

\* ------------------------------------------- QOpenGLContextGroupPrivate
\* new QOpenGLContextGroup: the first group object that does not exist
newGroup(S) ==
    CHOOSE g \in Groups : ~S.alive[g] /\ \A h \in Groups : h < g => S.alive[h]

addContext(S, g, ctx) ==
    [S EXCEPT !.m_refs[g] = @ + 1,
              !.m_shares[g] = Append(@, ctx)]

\* QOpenGLMultiGroupSharedResource::cleanup(group, value)
multiGroupCleanup(S, value, t) == free(invalidateResource(S, value), value, t)

RECURSIVE invalidateAll(_, _)
invalidateAll(S, list) ==
    IF list = <<>> THEN S
    ELSE invalidateAll([invalidateResource(S, Head(list)) EXCEPT !.m_group[Head(list)] = NoGroup],
                       Tail(list))

RECURSIVE qDeleteAll(_, _)
qDeleteAll(S, list) ==
    IF list = <<>> THEN S
    ELSE qDeleteAll(deleteResource(S, Head(list)), Tail(list))

cleanup(S, g, t) ==
    LET S1 == IF S.m_resources[g] # NoResource
              THEN [multiGroupCleanup(S, S.m_resources[g], t) EXCEPT !.m_resources[g] = NoResource]
              ELSE S
        S2 == [invalidateAll(S1, S1.m_sharedResources[g]) EXCEPT !.m_sharedResources[g] = <<>>]
    IN  [qDeleteAll(S2, S2.m_pendingDeletion[g]) EXCEPT !.m_pendingDeletion[g] = <<>>]

\* removeContext() that cleans the group up at every removal
removeContext_alwaysCleanup(S, g, ctx, t) ==
    LET S1 == [S EXCEPT !.m_shares[g] = removeOne(@, ctx),
                        !.m_refs[g] = @ - 1]
    IN  IF S1.m_refs[g] = 0
        THEN [cleanup(S1, g, t) EXCEPT !.alive[g] = FALSE]
        ELSE cleanup(S1, g, t)

\* the group object is deleted (directly, or by deleteLater()) once its last
\* context is removed; nothing refers to it any more by then
removeContext(S, g, ctx, t) ==
    LET S1 == [S EXCEPT !.m_shares[g] = removeOne(@, ctx),
                        !.m_refs[g] = @ - 1]
    IN  IF S1.m_refs[g] = 0
        THEN [cleanup(S1, g, t) EXCEPT !.alive[g] = FALSE]
        ELSE S1

\* ------------------------------------------------------ QOpenGLContext
doneCurrent(S, c, t) ==
    IF ~isValid(S, c) THEN S
    ELSE LET S1 == IF currentContext(S, t) = c
                   THEN deletePendingResources(S, S.shareGroup[c], c, t)
                   ELSE S
         IN  [setCurrentContext(S1, t, Null) EXCEPT !.surface[c] = Null]

destroy(S, c, t) ==
    LET S1 == IF currentContext(S, t) = c THEN doneCurrent(S, c, t) ELSE S
        S2 == IF S1.shareGroup[c] # NoGroup
              THEN removeContext(S1, S1.shareGroup[c], c, t)
              ELSE S1
    IN  [S2 EXCEPT !.shareGroup[c] = NoGroup,
                   !.platformGLContext[c] = "none"]

\* adopt() that picks the share group before it looks at isSharing()
adopt_groupFirst(S, c, platform, sharing) ==
    LET g == IF S.shareContext[c] # Null
             THEN S.shareGroup[S.shareContext[c]]
             ELSE newGroup(S)
        S1 == [S EXCEPT !.platformGLContext[c] = platform,
                        !.shareContext[c] = IF sharing THEN @ ELSE Null]
        S2 == IF S.shareContext[c] # Null THEN S1 ELSE [S1 EXCEPT !.alive[g] = TRUE]
    IN  addContext([S2 EXCEPT !.shareGroup[c] = g], g, c)

\* adopt() that keeps the requested share context whatever isSharing() says
adopt_keepShare(S, c, platform, sharing) ==
    LET S1 == [S EXCEPT !.platformGLContext[c] = platform]
        g == IF S1.shareContext[c] # Null
             THEN S1.shareGroup[S1.shareContext[c]]
             ELSE newGroup(S1)
        S2 == IF S1.shareContext[c] # Null THEN S1 ELSE [S1 EXCEPT !.alive[g] = TRUE]
    IN  addContext([S2 EXCEPT !.shareGroup[c] = g], g, c)

\* platform: the isValid() of the new platform context; sharing: its isSharing()
adopt(S, c, platform, sharing) ==
    LET S1 == [S EXCEPT !.platformGLContext[c] = platform,
                        !.shareContext[c] = IF sharing THEN @ ELSE Null]
        g == IF S1.shareContext[c] # Null
             THEN S1.shareGroup[S1.shareContext[c]]
             ELSE newGroup(S1)
        S2 == IF S1.shareContext[c] # Null THEN S1 ELSE [S1 EXCEPT !.alive[g] = TRUE]
    IN  addContext([S2 EXCEPT !.shareGroup[c] = g], g, c)

\* create() that gives up when the platform makes no context, before the
\* existing context is destroyed
create_failFirst(S, c, t, platform, sharing) ==
    IF platform = "none"
    THEN [state |-> S, ret |-> FALSE]
    ELSE LET S1 == IF S.platformGLContext[c] # "none" THEN destroy(S, c, t) ELSE S
             S2 == adopt(S1, c, platform, sharing)
         IN  [state |-> S2, ret |-> isValid(S2, c)]

\* platform: what createPlatformOpenGLContext() gives: "none" (nullptr), or a
\* platform context that is "valid" or "invalid".  The value is the state
\* after the call and what the call returns.
create(S, c, t, platform, sharing) ==
    LET S1 == IF S.platformGLContext[c] # "none" THEN destroy(S, c, t) ELSE S
    IN  IF platform = "none"
        THEN [state |-> S1, ret |-> FALSE]
        ELSE LET S2 == adopt(S1, c, platform, sharing)
             IN  [state |-> S2, ret |-> isValid(S2, c)]

\* makeCurrent() that records the context and the surface before it looks at
\* what the platform context's makeCurrent() returned
makeCurrent_eager(S, c, t, s, ok, affinity, noCheck) ==
    IF ~isValid(S, c)
    THEN [state |-> S, ret |-> FALSE, fatal |-> FALSE]
    ELSE IF ~noCheck /\ affinity # t
    THEN [state |-> S, ret |-> FALSE, fatal |-> TRUE]
    ELSE IF s = Null
    THEN [state |-> doneCurrent(S, c, t), ret |-> TRUE, fatal |-> FALSE]
    ELSE IF ~surfaceHandle(s)
    THEN [state |-> S, ret |-> FALSE, fatal |-> FALSE]
    ELSE IF ~supportsOpenGL(s)
    THEN [state |-> S, ret |-> FALSE, fatal |-> FALSE]
    ELSE IF ~ok
    THEN [state |-> [setCurrentContext(S, t, c) EXCEPT !.surface[c] = s],
          ret |-> FALSE, fatal |-> FALSE]
    ELSE LET S1 == [setCurrentContext(S, t, c) EXCEPT !.surface[c] = s]
         IN  [state |-> deletePendingResources(S1, S1.shareGroup[c], c, t),
              ret |-> TRUE, fatal |-> FALSE]

\* makeCurrent() without the deletePendingResources() call at its end
makeCurrent_noFlush(S, c, t, s, ok, affinity, noCheck) ==
    IF ~isValid(S, c)
    THEN [state |-> S, ret |-> FALSE, fatal |-> FALSE]
    ELSE IF ~noCheck /\ affinity # t
    THEN [state |-> S, ret |-> FALSE, fatal |-> TRUE]
    ELSE IF s = Null
    THEN [state |-> doneCurrent(S, c, t), ret |-> TRUE, fatal |-> FALSE]
    ELSE IF ~surfaceHandle(s)
    THEN [state |-> S, ret |-> FALSE, fatal |-> FALSE]
    ELSE IF ~supportsOpenGL(s)
    THEN [state |-> S, ret |-> FALSE, fatal |-> FALSE]
    ELSE IF ~ok
    THEN [state |-> S, ret |-> FALSE, fatal |-> FALSE]
    ELSE LET S1 == [setCurrentContext(S, t, c) EXCEPT !.surface[c] = s]
         IN  [state |-> S1,
              ret |-> TRUE, fatal |-> FALSE]

\* makeCurrent() that returns true for a null surface without calling
\* doneCurrent()
makeCurrent_nullReturns(S, c, t, s, ok, affinity, noCheck) ==
    IF ~isValid(S, c)
    THEN [state |-> S, ret |-> FALSE, fatal |-> FALSE]
    ELSE IF ~noCheck /\ affinity # t
    THEN [state |-> S, ret |-> FALSE, fatal |-> TRUE]
    ELSE IF s = Null
    THEN [state |-> S, ret |-> TRUE, fatal |-> FALSE]
    ELSE IF ~surfaceHandle(s)
    THEN [state |-> S, ret |-> FALSE, fatal |-> FALSE]
    ELSE IF ~supportsOpenGL(s)
    THEN [state |-> S, ret |-> FALSE, fatal |-> FALSE]
    ELSE IF ~ok
    THEN [state |-> S, ret |-> FALSE, fatal |-> FALSE]
    ELSE LET S1 == [setCurrentContext(S, t, c) EXCEPT !.surface[c] = s]
         IN  [state |-> deletePendingResources(S1, S1.shareGroup[c], c, t),
              ret |-> TRUE, fatal |-> FALSE]

\* makeCurrent() without the thread-affinity check
makeCurrent_noAffinity(S, c, t, s, ok, affinity, noCheck) ==
    IF ~isValid(S, c)
    THEN [state |-> S, ret |-> FALSE, fatal |-> FALSE]
    ELSE IF s = Null
    THEN [state |-> doneCurrent(S, c, t), ret |-> TRUE, fatal |-> FALSE]
    ELSE IF ~surfaceHandle(s)
    THEN [state |-> S, ret |-> FALSE, fatal |-> FALSE]
    ELSE IF ~supportsOpenGL(s)
    THEN [state |-> S, ret |-> FALSE, fatal |-> FALSE]
    ELSE IF ~ok
    THEN [state |-> S, ret |-> FALSE, fatal |-> FALSE]
    ELSE LET S1 == [setCurrentContext(S, t, c) EXCEPT !.surface[c] = s]
         IN  [state |-> deletePendingResources(S1, S1.shareGroup[c], c, t),
              ret |-> TRUE, fatal |-> FALSE]

\* ok: what the platform context's makeCurrent() returns.  fatal: qFatal()
\* was reached, the call does not return.
makeCurrent(S, c, t, s, ok, affinity, noCheck) ==
    IF ~isValid(S, c)
    THEN [state |-> S, ret |-> FALSE, fatal |-> FALSE]
    ELSE IF ~noCheck /\ affinity # t
    THEN [state |-> S, ret |-> FALSE, fatal |-> TRUE]
    ELSE IF s = Null
    THEN [state |-> doneCurrent(S, c, t), ret |-> TRUE, fatal |-> FALSE]
    ELSE IF ~surfaceHandle(s)
    THEN [state |-> S, ret |-> FALSE, fatal |-> FALSE]
    ELSE IF ~supportsOpenGL(s)
    THEN [state |-> S, ret |-> FALSE, fatal |-> FALSE]
    ELSE IF ~ok
    THEN [state |-> S, ret |-> FALSE, fatal |-> FALSE]
    ELSE LET S1 == [setCurrentContext(S, t, c) EXCEPT !.surface[c] = s]
         IN  [state |-> deletePendingResources(S1, S1.shareGroup[c], c, t),
              ret |-> TRUE, fatal |-> FALSE]

\* swapBuffers() that does not test isValid()
swapBuffers_noValidTest(S, c, s, single) ==
    IF s = Null
    THEN [state |-> S, ret |-> "noSwap"]
    ELSE IF ~supportsOpenGL(s)
    THEN [state |-> S, ret |-> "noSwap"]
    ELSE IF ~surfaceHandle(s)
    THEN [state |-> S, ret |-> "noSwap"]
    ELSE IF single
    THEN [state |-> S, ret |-> "flushThenSwap"]
    ELSE [state |-> S, ret |-> "swap"]

\* single: the surface's format has the swap behaviour SingleBuffer.  ret: the
\* calls made on the platform side: none ("noSwap"), the platform context's
\* swapBuffers() ("swap"), or glFlush() and then swapBuffers() ("flushThenSwap")
swapBuffers(S, c, s, single) ==
    IF ~isValid(S, c)
    THEN [state |-> S, ret |-> "noSwap"]
    ELSE IF s = Null
    THEN [state |-> S, ret |-> "noSwap"]
    ELSE IF ~supportsOpenGL(s)
    THEN [state |-> S, ret |-> "noSwap"]
    ELSE IF ~surfaceHandle(s)
    THEN [state |-> S, ret |-> "noSwap"]
    ELSE IF single
    THEN [state |-> S, ret |-> "flushThenSwap"]
    ELSE [state |-> S, ret |-> "swap"]

areSharing(S, first, second) == S.shareGroup[first] = S.shareGroup[second]

\* ------------------------------------------------------------ actions
Op(op, ret) == [op |-> op, ret |-> ret]

Bool(b) == IF b THEN "true" ELSE "false"

\* the process is running, and one more step fits the explored length
Budget ==
    /\ ~aborted
    /\ steps < MaxSteps
    /\ steps' = steps + 1

\* a step that is a whole operation: no free() call is begun or continued
Running ==
    /\ Budget
    /\ UNCHANGED <<freeing, freeCalled>>

Commit(S) ==
    /\ platformGLContext' = S.platformGLContext
    /\ shareContext' = S.shareContext
    /\ shareGroup' = S.shareGroup
    /\ surface' = S.surface
    /\ threadContext' = S.threadContext
    /\ alive' = S.alive
    /\ m_shares' = S.m_shares
    /\ m_refs' = S.m_refs
    /\ m_sharedResources' = S.m_sharedResources
    /\ m_pendingDeletion' = S.m_pendingDeletion
    /\ m_resources' = S.m_resources
    /\ m_group' = S.m_group
    /\ life' = S.life
    /\ invalidated' = S.invalidated
    /\ freed' = S.freed

Init ==
    /\ platformGLContext = [c \in Contexts |-> "none"]
    /\ shareContext = [c \in Contexts |-> Null]
    /\ shareGroup = [c \in Contexts |-> NoGroup]
    /\ surface = [c \in Contexts |-> Null]
    /\ thread = [c \in Contexts |-> "t1"]
    /\ threadContext = [t \in Threads |-> NoData]
    /\ alive = [g \in Groups |-> FALSE]
    /\ m_shares = [g \in Groups |-> <<>>]
    /\ m_refs = [g \in Groups |-> 0]
    /\ m_sharedResources = [g \in Groups |-> <<>>]
    /\ m_pendingDeletion = [g \in Groups |-> <<>>]
    /\ m_resources = [g \in Groups |-> NoResource]
    /\ m_group = [r \in Resources |-> NoGroup]
    /\ life = [r \in Resources |-> "unborn"]
    /\ invalidated = [r \in Resources |-> FALSE]
    /\ freed = [r \in Resources |-> <<>>]
    /\ dontCheckAffinity \in BOOLEAN
    /\ aborted = FALSE
    /\ freeing = [t \in Threads |-> <<NoResource, NoGroup>>]
    /\ freeCalled = {}
    /\ steps = 0
    /\ last = Op("init", "void")

\* shareHandle(): the platform context of the share context, if any
shareHandle(c) ==
    IF shareContext[c] # Null THEN platformGLContext[shareContext[c]] ELSE "none"

SetShareContext(c, sc) ==
    /\ Running
    /\ sc # c
    /\ shareContext' = [shareContext EXCEPT ![c] = sc]
    /\ last' = Op("setShareContext", "void")
    /\ UNCHANGED <<platformGLContext, shareGroup, surface, thread, threadContext, alive,
                   m_shares, m_refs, m_sharedResources, m_pendingDeletion, m_resources,
                   m_group, life, invalidated, freed, dontCheckAffinity, aborted>>

\* a platform context shares only with a share context that has a platform context
Create(t, c, platform, sharing) ==
    /\ Running
    /\ sharing => (platform # "none" /\ shareHandle(c) # "none")
    /\ LET out == create(State, c, t, platform, sharing)
       IN  /\ Commit(out.state)
           /\ last' = Op("create", Bool(out.ret))
    /\ UNCHANGED <<thread, dontCheckAffinity, aborted>>

\* destroy() returns nothing; what is noted of the call is what removeContext()
\* did: "void" when the context had no share group, "groupDeleted" when the
\* context was the group's last one, "groupKept" when the group lives on
Destroy(t, c) ==
    /\ Running
    /\ Commit(destroy(State, c, t))
    /\ last' = Op("destroy", IF shareGroup[c] = NoGroup THEN "void"
                             ELSE IF alive'[shareGroup[c]] THEN "groupKept"
                             ELSE "groupDeleted")
    /\ UNCHANGED <<thread, dontCheckAffinity, aborted>>

MakeCurrent(t, c, s, ok) ==
    /\ Running
    /\ LET out == makeCurrent(State, c, t, s, ok, thread[c], dontCheckAffinity)
       IN  /\ Commit(out.state)
           /\ aborted' = out.fatal
           /\ last' = Op("makeCurrent", IF out.fatal THEN "fatal" ELSE Bool(out.ret))
    /\ UNCHANGED <<thread, dontCheckAffinity>>

DoneCurrent(t, c) ==
    /\ Running
    /\ Commit(doneCurrent(State, c, t))
    /\ last' = Op("doneCurrent", "void")
    /\ UNCHANGED <<thread, dontCheckAffinity, aborted>>

\* QObject::moveToThread(), called from the thread the context lives in
MoveToThread(t, c, target) ==
    /\ Running
    /\ thread[c] = t
    /\ target # t
    /\ thread' = [thread EXCEPT ![c] = target]
    /\ last' = Op("moveToThread", "void")
    /\ UNCHANGED <<platformGLContext, shareContext, shareGroup, surface, threadContext,
                   alive, m_shares, m_refs, m_sharedResources, m_pendingDeletion,
                   m_resources, m_group, life, invalidated, freed, dontCheckAffinity,
                   aborted>>

\* the platform reports the native context as lost: isValid() turns false
LoseContext(c) ==
    /\ Running
    /\ platformGLContext[c] = "valid"
    /\ platformGLContext' = [platformGLContext EXCEPT ![c] = "invalid"]
    /\ last' = Op("loseContext", "void")
    /\ UNCHANGED <<shareContext, shareGroup, surface, thread, threadContext, alive,
                   m_shares, m_refs, m_sharedResources, m_pendingDeletion, m_resources,
                   m_group, life, invalidated, freed, dontCheckAffinity, aborted>>

\* QOpenGLSharedResource::QOpenGLSharedResource(group)
NewResource(r, g) ==
    /\ Running
    /\ life[r] = "unborn"
    /\ alive[g]
    /\ life' = [life EXCEPT ![r] = "alive"]
    /\ m_group' = [m_group EXCEPT ![r] = g]
    /\ m_sharedResources' = [m_sharedResources EXCEPT ![g] = Append(@, r)]
    /\ last' = Op("newResource", "void")
    /\ UNCHANGED <<platformGLContext, shareContext, shareGroup, surface, thread,
                   threadContext, alive, m_shares, m_refs, m_pendingDeletion, m_resources,
                   invalidated, freed, dontCheckAffinity, aborted>>

\* QOpenGLMultiGroupSharedResource::insert(context, value)
Insert(c, value) ==
    /\ Running
    /\ shareGroup[c] # NoGroup
    /\ m_resources[shareGroup[c]] = NoResource
    /\ value \in Range(m_sharedResources[shareGroup[c]])
    /\ m_resources' = [m_resources EXCEPT ![shareGroup[c]] = value]
    /\ last' = Op("insert", "void")
    /\ UNCHANGED <<platformGLContext, shareContext, shareGroup, surface, thread,
                   threadContext, alive, m_shares, m_refs, m_sharedResources,
                   m_pendingDeletion, m_group, life, invalidated, freed,
                   dontCheckAffinity, aborted>>

isPending(r) == \E g \in Groups : r \in Range(m_pendingDeletion[g])
isOwned(r) == \E g \in Groups : m_resources[g] = r

\* free() is called once on a resource, and not on one a multi-group owner holds
Free(t, r) ==
    /\ Running
    /\ life[r] = "alive"
    /\ ~isPending(r)
    /\ ~isOwned(r)
    /\ Commit(free(State, r, t))
    /\ last' = Op("free", "void")
    /\ UNCHANGED <<thread, dontCheckAffinity, aborted>>

SwapBuffers(c, s, single) ==
    /\ Running
    /\ LET out == swapBuffers(State, c, s, single)
       IN  /\ Commit(out.state)
           /\ last' = Op("swapBuffers", out.ret)
    /\ UNCHANGED <<thread, dontCheckAffinity, aborted>>

Next ==
    \/ \E c \in Contexts, sc \in Contexts \cup {Null} : SetShareContext(c, sc)
    \/ \E t \in Threads, c \in Contexts, platform \in {"none", "valid", "invalid"},
          sharing \in BOOLEAN : Create(t, c, platform, sharing)
    \/ \E t \in Threads, c \in Contexts : Destroy(t, c)
    \/ \E t \in Threads, c \in Contexts, s \in Surfaces \cup {Null}, ok \in BOOLEAN :
          MakeCurrent(t, c, s, ok)
    \/ \E t \in Threads, c \in Contexts : DoneCurrent(t, c)
    \/ \E t \in Threads, c \in Contexts, target \in Threads : MoveToThread(t, c, target)
    \/ \E c \in Contexts : LoseContext(c)
    \/ \E r \in Resources, g \in Groups : NewResource(r, g)
    \/ \E c \in Contexts, r \in Resources : Insert(c, r)
    \/ \E t \in Threads, r \in Resources : Free(t, r)
    \/ \E c \in Contexts, s \in Surfaces \cup {Null}, single \in BOOLEAN :
          SwapBuffers(c, s, single)

Spec == Init /\ [][Next]_vars

\* --------------------------------------------- free() in two steps
\* The operations above are atomic.  free() reads m_group before it locks the
\* group's mutex (lines 1166 and 1171), so another thread's operation can run
\* between the read and the lock; the two halves are the steps FreeBegin and
\* FreeLocked.  The other operations hold the mutex for the whole of their
\* list updates and stay one step each.
Idle(t) == freeing[t] = <<NoResource, NoGroup>>

\* the test of m_group and, for a resource without group, delete this
FreeBegin(t, r) ==
    /\ Budget
    /\ Idle(t)
    /\ life[r] = "alive"
    /\ r \notin freeCalled
    /\ ~isOwned(r)
    /\ freeCalled' = freeCalled \cup {r}
    /\ IF m_group[r] = NoGroup
       THEN /\ Commit(deleteResource(State, r))
            /\ freeing' = freeing
            /\ last' = Op("free", "void")
       ELSE /\ Commit(State)
            /\ freeing' = [freeing EXCEPT ![t] = <<r, m_group[r]>>]
            /\ last' = Op("free", "begun")
    /\ UNCHANGED <<thread, dontCheckAffinity, aborted>>

\* the group read by the free() call of thread t has been deleted, or cleanup()
\* has reset the resource's m_group, since the call read it
stale(t) == ~alive[freeing[t][2]] \/ m_group[freeing[t][1]] # freeing[t][2]

\* the rest of free().  When the group was deleted or m_group was reset in
\* between, the call works on a deleted object or a null pointer: it crashes,
\* or it runs on with the group it read.
FreeLocked(t, crash) ==
    /\ Budget
    /\ ~Idle(t)
    /\ crash => stale(t)
    /\ IF crash
       THEN /\ Commit(State)
            /\ aborted' = TRUE
            /\ last' = Op("free", "crash")
       ELSE /\ Commit(freeLocked(State, freeing[t][1], freeing[t][2], t))
            /\ aborted' = aborted
            /\ last' = Op("free", "void")
    /\ freeing' = [freeing EXCEPT ![t] = <<NoResource, NoGroup>>]
    /\ UNCHANGED <<thread, dontCheckAffinity, freeCalled>>

NextThreads ==
    \/ \E c \in Contexts, sc \in Contexts \cup {Null} : SetShareContext(c, sc)
    \/ \E t \in Threads, c \in Contexts, platform \in {"none", "valid", "invalid"},
          sharing \in BOOLEAN : Idle(t) /\ Create(t, c, platform, sharing)
    \/ \E t \in Threads, c \in Contexts : Idle(t) /\ Destroy(t, c)
    \/ \E t \in Threads, c \in Contexts, s \in Surfaces \cup {Null}, ok \in BOOLEAN :
          Idle(t) /\ MakeCurrent(t, c, s, ok)
    \/ \E r \in Resources, g \in Groups : NewResource(r, g)
    \/ \E t \in Threads, r \in Resources : FreeBegin(t, r)
    \/ \E t \in Threads, crash \in BOOLEAN : FreeLocked(t, crash)

SpecThreads == Init /\ [][NextThreads]_vars

\* ------------------------------------------------------------- claims
\* currentContext() called in thread t
current(t) == currentContext(State, t)

\* a context of group g is current in thread t
groupIsCurrent(g, t) == current(t) # Null /\ shareGroup[current(t)] = g

\* the resources on the pending-deletion queue of c's share group
pendingOf(c) ==
    IF shareGroup[c] = NoGroup THEN {} ELSE Range(m_pendingDeletion[shareGroup[c]])

\* the last freeResource() call made on r
lastFreed(r) == freed[r][Len(freed[r])]

\* C1: every freeResource() call is made with a context that, when the call
\* is made, is valid, is a member of the resource's share group and is the
\* current context of the calling thread.
C1_FreeResourceContext ==
    \A r \in Resources : \A i \in 1..Len(freed[r]) :
        freed[r][i].valid /\ freed[r][i].member /\ freed[r][i].current

\* an operation of thread t on context c
ContextOp(t, c) ==
    \/ \E s \in Surfaces \cup {Null}, ok \in BOOLEAN : MakeCurrent(t, c, s, ok)
    \/ DoneCurrent(t, c)
    \/ Destroy(t, c)
    \/ \E p \in {"none", "valid", "invalid"}, sh \in BOOLEAN : Create(t, c, p, sh)

\* C2: free() on a resource whose group has no context current in the
\* calling thread puts the resource on the group's pending-deletion queue and
\* neither releases nor deletes it; a successful makeCurrent() of a member
\* of the group releases and deletes every resource pending in the group; an
\* operation on a context of another group leaves the group's queue and the
\* resources on it as they are.  (Each conjunct reads "the step of the
\* operation ends as stated": the outcome, or else the step is not one of
\* that operation.)
C2_DeferredUntilCurrent ==
    [][/\ \A t \in Threads, r \in Resources :
            (m_group[r] # NoGroup /\ ~groupIsCurrent(m_group[r], t))
                => \/ /\ r \in Range(m_pendingDeletion'[m_group[r]])
                      /\ life'[r] = "alive"
                      /\ freed'[r] = freed[r]
                   \/ ~Free(t, r)
       /\ \A t \in Threads, c \in Contexts, s \in Surfaces :
            \/ \A r \in pendingOf(c) :
                   /\ life'[r] = "deleted"
                   /\ Len(freed'[r]) = Len(freed[r]) + 1
                   /\ lastFreed(r)'.context = c
            \/ ~MakeCurrent(t, c, s, TRUE)
            \/ last'.ret # "true"
       /\ \A t \in Threads, c \in Contexts : \A g \in Groups \ {shareGroup[c]} :
            \/ /\ m_pendingDeletion'[g] = m_pendingDeletion[g]
               /\ \A r \in Range(m_pendingDeletion[g]) :
                      life'[r] = life[r] /\ freed'[r] = freed[r]
            \/ ~ContextOp(t, c)
      ]_vars

\* a resource freed while no context of its group was current anywhere: it
\* waits on the queue, alive and not released
C2_Witness ==
    /\ last.op = "free"
    /\ \E r \in Resources :
          /\ m_group[r] # NoGroup
          /\ r \in Range(m_pendingDeletion[m_group[r]])
          /\ life[r] = "alive"
          /\ freed[r] = <<>>
          /\ \A t \in Threads : ~groupIsCurrent(m_group[r], t)

\* C3: in every thread t, a makeCurrent() that succeeds with a surface makes
\* its context the current one, a call of doneCurrent() or of
\* makeCurrent(nullptr) that returns true leaves no context current, and a
\* makeCurrent() that does not succeed leaves the current context as it was.
C3_CurrentIsLastMadeCurrent ==
    [][\A t \in Threads, c \in Contexts :
        /\ \/ current(t)' = c
           \/ \A s \in Surfaces : ~MakeCurrent(t, c, s, TRUE)
           \/ last'.ret # "true"
        /\ \/ current(t)' = Null
           \/ ~DoneCurrent(t, c)
        /\ \/ current(t)' = Null
           \/ \A ok \in BOOLEAN : ~MakeCurrent(t, c, Null, ok)
           \/ last'.ret # "true"
        /\ \/ current(t)' = current(t)
           \/ last'.ret = "true"
           \/ \A s \in Surfaces \cup {Null}, ok \in BOOLEAN : ~MakeCurrent(t, c, s, ok)
      ]_vars

\* C4: in every reachable state, with the thread-affinity check enforced or
\* disabled, no context is the current context of more than one thread.
C4_OneThreadPerContext ==
    \A c \in Contexts : Cardinality({t \in Threads : current(t) = c}) <= 1

\* C5: after doneCurrent() on any context, currentContext() in the calling
\* thread is null.
C5_DoneCurrentClears ==
    [][\A t \in Threads, c \in Contexts :
        current(t)' = Null \/ ~DoneCurrent(t, c)]_vars

\* the failure cases of makeCurrent(s) on c, ok being what the platform
\* context's makeCurrent() returns
makeCurrentFails(c, s, ok) ==
    \/ ~isValid(State, c)
    \/ /\ s # Null
       /\ ~surfaceHandle(s) \/ ~supportsOpenGL(s) \/ ~ok

\* thread t calls makeCurrent() on c from another thread than c's, with the
\* thread-affinity check enforced
foreignCall(t, c) == ~dontCheckAffinity /\ thread[c] # t

\* C6: a makeCurrent() call in one of its failure cases (context not valid,
\* surface without platform handle, surface not supporting OpenGL, platform
\* makeCurrent() failing) returns false and leaves every thread's current
\* context, every context's surface and every pending-deletion queue as they
\* were.
C6_FailedMakeCurrentUnchanged ==
    [][\A t \in Threads, c \in Contexts :
        \/ last'.op # "makeCurrent"
        \/ /\ last'.ret = "false"
           /\ threadContext' = threadContext
           /\ surface' = surface
           /\ m_pendingDeletion' = m_pendingDeletion
        \/ \A s \in Surfaces \cup {Null}, ok \in BOOLEAN :
              \/ ~makeCurrentFails(c, s, ok)
              \/ isValid(State, c) /\ foreignCall(t, c)
              \/ ~MakeCurrent(t, c, s, ok)
      ]_vars

\* a makeCurrent() call has failed in a thread that has a current context
\* whose group has a resource waiting on its pending-deletion queue
C6_Witness ==
    /\ last = Op("makeCurrent", "false")
    /\ \E t \in Threads :
          /\ current(t) # Null
          /\ surface[current(t)] \in Surfaces
          /\ pendingOf(current(t)) # {}

\* C7: when makeCurrent(s) returns true for a non-null surface s, the context
\* is the calling thread's current context, surface() is s, and every
\* resource that was on its share group's pending-deletion queue has been
\* released with this context, deleted, and is on no queue.
C7_MakeCurrentSuccess ==
    [][\A t \in Threads, c \in Contexts, s \in Surfaces :
        \/ last'.op # "makeCurrent"
        \/ last'.ret # "true"
        \/ /\ current(t)' = c
           /\ surface'[c] = s
           /\ \A r \in pendingOf(c) :
                 /\ life'[r] = "deleted"
                 /\ Len(freed'[r]) = Len(freed[r]) + 1
                 /\ lastFreed(r)'.context = c
                 /\ \A g \in Groups : r \notin Range(m_pendingDeletion'[g])
        \/ ~MakeCurrent(t, c, s, TRUE)
      ]_vars

\* a resource queued while no context was current has been released and
\* deleted by the makeCurrent() that has just returned true
C7_Witness ==
    /\ steps = 4
    /\ last = Op("makeCurrent", "true")
    /\ \E r \in Resources, t \in Threads :
          /\ life[r] = "deleted"
          /\ Len(freed[r]) = 1
          /\ current(t) # Null
          /\ lastFreed(r).context = current(t)
          /\ surface[current(t)] \in Surfaces

\* C8: makeCurrent(nullptr), called from the thread the context lives in,
\* leaves the threads' current contexts, the surfaces, the pending-deletion
\* queues and the resources as doneCurrent() called in the same state would,
\* and returns true when the context is valid.
C8_NullSurfaceIsDoneCurrent ==
    [][\A t \in Threads, c \in Contexts :
        \/ last'.op # "makeCurrent"
        \/ thread[c] # t
        \/ /\ threadContext' = doneCurrent(State, c, t).threadContext
           /\ surface' = doneCurrent(State, c, t).surface
           /\ m_pendingDeletion' = doneCurrent(State, c, t).m_pendingDeletion
           /\ life' = doneCurrent(State, c, t).life
           /\ freed' = doneCurrent(State, c, t).freed
           /\ isValid(State, c) => last'.ret = "true"
        \/ \A ok \in BOOLEAN : ~MakeCurrent(t, c, Null, ok)
      ]_vars

\* makeCurrent(nullptr) has returned true and taken away the current context
\* that a makeCurrent() with a surface had set
C8_Witness ==
    /\ steps = 3
    /\ last = Op("makeCurrent", "true")
    /\ \A t \in Threads : current(t) = Null
    /\ \E t \in Threads : threadContext[t] = Null
    /\ \A c \in Contexts : surface[c] = Null

\* C9 as stated: with the thread-affinity check enforced, every makeCurrent()
\* call made from a thread other than the context's aborts fatally and leaves
\* the calling thread's current context as it was.
C9_ForeignCallAborts ==
    [][\A t \in Threads, c \in Contexts :
        \/ last'.op # "makeCurrent"
        \/ ~foreignCall(t, c)
        \/ /\ last'.ret = "fatal"
           /\ threadContext' = threadContext
        \/ \A s \in Surfaces \cup {Null}, ok \in BOOLEAN : ~MakeCurrent(t, c, s, ok)
      ]_vars

\* C9 as amended: with the thread-affinity check enforced, a makeCurrent()
\* call made from a thread other than the context's never changes a thread's
\* current context; it aborts fatally when the context is valid and returns
\* false, without aborting, when it is not.
C9_AffinityEnforced ==
    [][\A t \in Threads, c \in Contexts :
        \/ last'.op # "makeCurrent"
        \/ ~foreignCall(t, c)
        \/ /\ threadContext' = threadContext
           /\ isValid(State, c) => last'.ret = "fatal" /\ aborted'
           /\ ~isValid(State, c) => last'.ret = "false" /\ ~aborted'
        \/ \A s \in Surfaces \cup {Null}, ok \in BOOLEAN : ~MakeCurrent(t, c, s, ok)
      ]_vars

\* a makeCurrent() call on a valid context from a foreign thread has aborted
C9_Witness ==
    /\ aborted
    /\ last = Op("makeCurrent", "fatal")
    /\ ~dontCheckAffinity
    /\ \E c \in Contexts : isValid(State, c)

\* C10: create() returns true exactly when the platform produced a platform
\* context that is valid, and then isValid() is true; when the platform
\* produces no platform context, create() returns false and the context has
\* no platform context, no share group and is in no group's list of shares.
C10_CreateResult ==
    [][\A t \in Threads, c \in Contexts,
          platform \in {"none", "valid", "invalid"}, sharing \in BOOLEAN :
        \/ last'.op # "create"
        \/ /\ (last'.ret = "true") <=> (platform = "valid")
           /\ (last'.ret = "true") <=> isValid(State, c)'
           /\ platform = "none" =>
                 /\ last'.ret = "false"
                 /\ platformGLContext'[c] = "none"
                 /\ shareGroup'[c] = NoGroup
                 /\ \A g \in Groups : c \notin Range(m_shares'[g])
        \/ ~Create(t, c, platform, sharing)
      ]_vars

\* create() on an existing context has destroyed it, taking its share group
\* and the group's resource with it, and has returned false
C10_Witness ==
    /\ steps = 3
    /\ last = Op("create", "false")
    /\ \A c \in Contexts : platformGLContext[c] = "none" /\ shareGroup[c] = NoGroup
    /\ \E r \in Resources : invalidated[r]

\* how many entries of the groups' lists of shares are the context c
memberships(c) ==
    Cardinality({p \in Groups \X (1..Cardinality(Contexts) + 1) :
                    p[2] <= Len(m_shares[p[1]]) /\ m_shares[p[1]][p[2]] = c})

\* C11: create() on a context that has a platform context destroys it first:
\* when create() returns the context is not the calling thread's current
\* context (it was released if it was current, and create() does not make it
\* current), and it is in the list of shares of the group it now has, once,
\* and in no other list.
C11_RecreateDestroysFirst ==
    [][\A t \in Threads, c \in Contexts :
        \/ last'.op # "create"
        \/ /\ platformGLContext[c] # "none" => current(t)' # c
           /\ memberships(c)' <= 1
           /\ shareGroup'[c] = NoGroup => memberships(c)' = 0
           /\ shareGroup'[c] # NoGroup => c \in Range(m_shares'[shareGroup'[c]])
        \/ \A platform \in {"none", "valid", "invalid"}, sharing \in BOOLEAN :
              ~Create(t, c, platform, sharing)
      ]_vars

\* C12: a context is added to a group's list of shares only by a create()
\* that succeeds: when create() returns false the context is in no group's
\* list of shares, and a context that create() has put in a list was valid
\* then.
C12_SharesAreInitialized ==
    [][\A t \in Threads, c \in Contexts :
        \/ last'.op # "create"
        \/ /\ last'.ret = "false" => memberships(c)' = 0
           /\ memberships(c)' > 0 => isValid(State, c)'
        \/ \A platform \in {"none", "valid", "invalid"}, sharing \in BOOLEAN :
              ~Create(t, c, platform, sharing)
      ]_vars

\* C13: create() with a platform context that is not sharing puts the context
\* alone in a new share group, one with no resources; and the list of shares
\* of a context that is alone in its group stays that one context for as
\* long as the context keeps the group and no create() puts another context
\* in it.
C13_NonSharingGroupIsSingle ==
    [][\A t \in Threads, c \in Contexts :
        /\ \/ last'.op # "create"
           \/ /\ shareGroup'[c] # NoGroup
              /\ alive'[shareGroup'[c]]
              /\ m_shares'[shareGroup'[c]] = <<c>>
              /\ m_refs'[shareGroup'[c]] = 1
              /\ shareContext'[c] = Null
              /\ m_sharedResources'[shareGroup'[c]] = <<>>
              /\ m_pendingDeletion'[shareGroup'[c]] = <<>>
              /\ m_resources'[shareGroup'[c]] = NoResource
           \/ \A platform \in {"valid", "invalid"} : ~Create(t, c, platform, FALSE)
        /\ \/ shareGroup[c] = NoGroup
           \/ m_shares[shareGroup[c]] # <<c>>
           \/ shareGroup'[c] # shareGroup[c]
           \/ m_shares'[shareGroup[c]] = <<c>>
           \/ /\ last'.op = "create"
              /\ \E c2 \in Contexts \ {c} :
                    shareContext'[c2] # Null /\ shareGroup'[c2] = shareGroup[c]
      ]_vars

\* create() has just put a context alone in a new group although a share
\* context had been requested, the share context being alone in its own
C13_Witness ==
    /\ last.op = "create"
    /\ steps = 3
    /\ \A c \in Contexts :
          /\ shareGroup[c] # NoGroup
          /\ m_shares[shareGroup[c]] = <<c>>
          /\ shareContext[c] = Null

\* C14: in every reachable state, for two distinct contexts, areSharing()
\* is true exactly when both are in the list of shares of one group; it is
\* false when neither has been created or both were destroyed.
C14_AreSharingIffSameGroup ==
    \A first \in Contexts : \A second \in Contexts \ {first} :
        areSharing(State, first, second) <=>
            \E g \in Groups : {first, second} \subseteq Range(m_shares[g])

\* C15: create() on a context whose requested share context exists puts the
\* context in the share context's group, both being in its list of shares,
\* when the platform context is sharing; when it is not sharing,
\* shareContext() is null afterwards and the context is alone in a group
\* that is not the share context's.
C15_SharingAtCreate ==
    [][\A t \in Threads, c \in Contexts :
        \/ last'.op # "create"
        \/ shareContext[c] = Null
        \/ platformGLContext[shareContext[c]] = "none"
        \/ \A platform \in {"valid", "invalid"} :
              /\ \/ /\ shareContext'[c] = shareContext[c]
                    /\ shareGroup'[c] # NoGroup
                    /\ shareGroup'[c] = shareGroup'[shareContext[c]]
                    /\ {c, shareContext[c]} \subseteq Range(m_shares'[shareGroup'[c]])
                    /\ memberships(c)' = 1
                 \/ ~Create(t, c, platform, TRUE)
              /\ \/ /\ shareContext'[c] = Null
                    /\ shareGroup'[c] # NoGroup
                    /\ shareGroup'[c] # shareGroup'[shareContext[c]]
                    /\ m_shares'[shareGroup'[c]] = <<c>>
                 \/ ~Create(t, c, platform, FALSE)
      ]_vars

\* create() has just put a context in the group of its share context
C15_Witness ==
    /\ last = Op("create", "true")
    /\ \E c \in Contexts :
          /\ shareContext[c] # Null
          /\ shareGroup[c] # NoGroup
          /\ shareGroup[c] = shareGroup[shareContext[c]]
          /\ Len(m_shares[shareGroup[c]]) = 2
          /\ m_shares[shareGroup[c]][2] = c

\* C16: a setShareContext() call on a context that has been created changes
\* neither what shareContext() returns nor any context's share group.
C16_SetShareContextDeferred ==
    [][\A c \in Contexts :
        \/ last'.op # "setShareContext"
        \/ platformGLContext[c] = "none"
        \/ /\ shareContext'[c] = shareContext[c]
           /\ shareGroup' = shareGroup
        \/ \A sc \in (Contexts \cup {Null}) \ {c} : ~SetShareContext(c, sc)
      ]_vars

\* C17: destroy() on a context whose group has another member leaves the
\* group in existence, leaves the share group of every other context as it
\* was, and leaves every resource of the group on which free() has not been
\* called as it was: alive, not invalidated, not released, in the group's
\* list; the resource a multi-group owner keeps in the group stays too.
C17_DestroyKeepsSharedResources ==
    [][\A t \in Threads, c \in Contexts :
        \/ last'.op # "destroy"
        \/ shareGroup[c] = NoGroup
        \/ Range(m_shares[shareGroup[c]]) \subseteq {c}
        \/ /\ alive'[shareGroup[c]]
           /\ \A c2 \in Contexts \ {c} : shareGroup'[c2] = shareGroup[c2]
           /\ m_sharedResources'[shareGroup[c]] = m_sharedResources[shareGroup[c]]
           /\ m_resources'[shareGroup[c]] = m_resources[shareGroup[c]]
           /\ \A r \in Range(m_sharedResources[shareGroup[c]]) :
                 /\ life'[r] = life[r]
                 /\ invalidated'[r] = invalidated[r]
                 /\ freed'[r] = freed[r]
                 /\ m_group'[r] = m_group[r]
        \/ ~Destroy(t, c)
      ]_vars

\* a context has been destroyed and the context that shares with it keeps the
\* group and its living resource
C17_Witness ==
    /\ last = Op("destroy", "groupKept")
    /\ \E c \in Contexts, c2 \in Contexts, r \in Resources :
          /\ c2 # c
          /\ platformGLContext[c] = "none"
          /\ shareGroup[c] = NoGroup
          /\ shareGroup[c2] # NoGroup
          /\ alive[shareGroup[c2]]
          /\ m_shares[shareGroup[c2]] = <<c2>>
          /\ r \in Range(m_sharedResources[shareGroup[c2]])
          /\ life[r] = "alive"
          /\ ~invalidated[r]

\* C19: swapBuffers(s) makes no call on the platform side when the context is
\* not valid, s is null, s does not support OpenGL or s has no platform
\* handle; otherwise it calls the platform context's swapBuffers(), after a
\* glFlush() when the surface format is single-buffered; in every case the
\* threads' current contexts, the contexts' surfaces and the share groups
\* are as before.
C19_SwapBuffersGuards ==
    [][\A c \in Contexts, s \in Surfaces \cup {Null}, single \in BOOLEAN :
        \/ last'.op # "swapBuffers"
        \/ /\ threadContext' = threadContext
           /\ surface' = surface
           /\ shareGroup' = shareGroup
           /\ m_shares' = m_shares
           /\ m_refs' = m_refs
           /\ m_sharedResources' = m_sharedResources
           /\ m_pendingDeletion' = m_pendingDeletion
           /\ alive' = alive
           /\ IF \/ ~isValid(State, c)
                 \/ s = Null
                 \/ ~supportsOpenGL(s)
                 \/ ~surfaceHandle(s)
              THEN last'.ret = "noSwap"
              ELSE last'.ret = IF single THEN "flushThenSwap" ELSE "swap"
        \/ ~SwapBuffers(c, s, single)
      ]_vars

\* swapBuffers() has returned without a platform call on a context that is
\* current in a thread and whose native context was lost
C19_Witness ==
    /\ last = Op("swapBuffers", "noSwap")
    /\ \E t \in Threads :
          /\ current(t) # Null
          /\ platformGLContext[current(t)] = "invalid"
          /\ surface[current(t)] \in Surfaces

\* C18: with operations of different threads interleaved, in every state: no
\* free() call has crashed; no resource was released or deleted twice; a
\* resource on which free() was called and has returned is deleted or waits
\* on the pending-deletion queue of an existing group; and a group's context
\* count is the length of its list of shares.
C18_RaceFreeBookkeeping ==
    /\ last # Op("free", "crash")
    /\ \A r \in Resources :
          /\ life[r] # "deletedTwice"
          /\ Len(freed[r]) <= 1
          /\ (r \in freeCalled /\ \A t \in Threads : freeing[t][1] # r) =>
                \/ life[r] = "deleted"
                \/ \E g \in Groups : alive[g] /\ r \in Range(m_pendingDeletion[g])
    /\ \A g \in Groups : m_refs[g] = Len(m_shares[g])

====
